---- MODULE Spec2Model ----
(***************************************************************************)
(* The repair-shop data store of src/app/page.tsx (the zustand store       *)
(* useDataStore and the HomePage component that drives it) as a state      *)
(* machine.                                                                *)
(*                                                                         *)
(* Two specifications share the definitions of the store operations:       *)
(*   Spec     the store driven through its interface DataState, each       *)
(*            operation called with arguments of its declared type;        *)
(*   AppSpec  the page: HomePage mounts, its effects run, and the user     *)
(*            drives the store through the form handlers.                  *)
(*                                                                         *)
(* Representation.  An entity is a function from its keys to values.  A    *)
(* key that an object literal sets to undefined is present and holds       *)
(* Undefined (NoNumber for the numeric estimatedCost); JSON.stringify      *)
(* drops such keys, so a persisted entity has fewer keys than the one in   *)
(* memory.  A defined number n is the one-element tuple <<n>>, and a       *)
(* timestamp is the millisecond count that toISOString prints (the ISO     *)
(* text is an order-preserving, injective rendering of it), also <<n>>.    *)
(***************************************************************************)
EXTENDS Integers, Sequences, FiniteSets, TLC

VARIABLES
    customers,      \* DataState.customers
    technicians,    \* DataState.technicians
    devices,        \* DataState.devices
    tickets,        \* DataState.tickets
    localStorage,   \* the item stored under STORAGE_KEY
    clock,          \* what new Date() reads, in milliseconds
    uuids,          \* how many ids crypto.randomUUID() has handed out
    steps,          \* how many steps have been taken
    mounted,        \* HomePage has rendered at least once
    rendered,       \* the collections captured by the latest render
    commit,         \* which commit the pending effects belong to
    effects,        \* passive effects of the latest commit still to run
    bootItem,       \* the item that was stored when the page loaded
    filter,         \* HomePage's status filter
    search,         \* HomePage's search term
    newTicket,      \* HomePage's new-ticket form
    peer,           \* the collections of the store in a second tab
    op              \* the step just taken: its name, arguments and result

store == <<customers, technicians, devices, tickets>>
view  == <<filter, search, newTicket>>
page  == <<mounted, rendered, commit, effects, bootItem, view>>
vars  == <<customers, technicians, devices, tickets, localStorage, clock,
           uuids, steps, mounted, rendered, commit, effects, bootItem,
           filter, search, newTicket, peer, op>>

(***************************************************************************)
(* Bounds of the model.                                                    *)
(***************************************************************************)
MaxSteps == 3       \* steps (operations called, clock ticks) in one run

STORAGE_KEY == "crm_local_storage_v1"

Keys == {"customers", "technicians", "devices", "tickets"}

Status == {"New", "Diagnosing", "Awaiting Parts", "In Progress", "Ready",
           "Picked Up", "Cancelled"}

Undefined == "undefined"
NoNumber  == <<>>

\* undefined, as the value of key f
NumberKeys == {"estimatedCost", "createdAt", "updatedAt"}

UndefinedOf(f) == IF f \in NumberKeys THEN NoNumber ELSE Undefined

\* e.f in JavaScript: a missing key reads as undefined
Get(e, f) == IF f \in DOMAIN e THEN e[f] ELSE UndefinedOf(f)

\* { ...a, ...b }
Spread(a, b) ==
    [f \in DOMAIN a \cup DOMAIN b |-> IF f \in DOMAIN b THEN b[f] ELSE a[f]]

\* the i-th value of crypto.randomUUID(): never an id handed out before, and
\* never one of the ids ("x1", ...) that documents from outside carry
randomUUID(i) == "u" \o ToString(i)

State ==
    [customers |-> customers, technicians |-> technicians,
     devices |-> devices, tickets |-> tickets]

EmptyState ==
    [customers |-> <<>>, technicians |-> <<>>, devices |-> <<>>,
     tickets |-> <<>>]

(***************************************************************************)
(* JSON.  A text is a record: kind says what JSON.parse makes of it        *)
(* ("none": no text at all, getItem returned null; "empty": the empty      *)
(* string; "garbage": not JSON; "null": the JSON null; "scalar": a number, *)
(* string, boolean or array; "object": an object), value holds the         *)
(* object's keys that carry arrays and nulls its keys that carry null.     *)
(* White space (the indentation JSON.stringify is asked for) is not part   *)
(* of a text: JSON.parse skips it.                                         *)
(***************************************************************************)
NoFields == [f \in {} |-> Undefined]

Text(kind, value, nulls) ==
    [kind |-> kind, value |-> value, nulls |-> nulls]

NoItem  == Text("none", NoFields, {})
Garbage == Text("garbage", NoFields, {})

\* what JSON.stringify keeps of an object: the keys whose value is defined
StripUndefined(e) ==
    [f \in {g \in DOMAIN e : e[g] # UndefinedOf(g)} |-> e[f]]

StripAll(items) == [i \in 1..Len(items) |-> StripUndefined(items[i])]

\* JSON.stringify({customers, technicians, devices, tickets})
JSONstringify(s) ==
    Text("object", [k \in Keys |-> StripAll(s[k])], {})

\* JSON.parse(text) throws a SyntaxError
ParseThrows(text) == text.kind \in {"garbage", "empty"}

\* reading a property of JSON.parse(text) throws a TypeError
PropThrows(text) == text.kind = "null"

\* parsed.k ?? []
PropOrEmpty(text, k) ==
    IF text.kind = "object" /\ k \in DOMAIN text.value
    THEN text.value[k]
    ELSE <<>>

\* the four collections read from a parseable text
Parsed(text) == [k \in Keys |-> PropOrEmpty(text, k)]

(***************************************************************************)
(* The store operations (page.tsx 59-174), each as the function from the   *)
(* store's state s and its arguments to the state it sets and the item it  *)
(* leaves under STORAGE_KEY.  id is the value crypto.randomUUID() returns  *)
(* in the call and now the time new Date() reads in it.  Here every        *)
(* localStorage.setItem succeeds; what a refused write leaves is given     *)
(* with QuotaSpec below.                                                   *)
(***************************************************************************)
Null == "null"

\* a call that ends with an exception, as the caller sees it
Thrown == "throws"

Outcome(state, item, ret) == [state |-> state, item |-> item, ret |-> ret]

hydrate(s, item) ==
    IF item.kind \in {"none", "empty"}                   \* if (!raw) return
    THEN s
    ELSE IF ParseThrows(item) \/ PropThrows(item)        \* catch: log only
         THEN s
         ELSE Parsed(item)

\* hydrate without its try and catch
hydrateThrows_noCatch(item) ==
    /\ item.kind \notin {"none", "empty"}
    /\ ParseThrows(item) \/ PropThrows(item)

\* hydrate's whole body is inside try, and the catch only logs: no item
\* makes the call end with an exception
hydrateThrows(item) == FALSE

save(s) ==
    JSONstringify([customers |-> s.customers, technicians |-> s.technicians,
                   devices |-> s.devices, tickets |-> s.tickets])

addCustomer(s, c, id) ==
    LET item == Spread([id |-> id], c)
        cs   == <<item>> \o s.customers
    IN  Outcome([s EXCEPT !.customers = cs],
                JSONstringify([customers |-> cs,
                               technicians |-> s.technicians,
                               devices |-> s.devices,
                               tickets |-> s.tickets]),
                Undefined)

addTechnician(s, t, id) ==
    LET item == Spread([id |-> id], t)
        ts   == <<item>> \o s.technicians
    IN  Outcome([s EXCEPT !.technicians = ts],
                JSONstringify([customers |-> s.customers,
                               technicians |-> ts,
                               devices |-> s.devices,
                               tickets |-> s.tickets]),
                Undefined)

addDevice(s, d, id) ==
    LET item == Spread([id |-> id], d)
        ds   == <<item>> \o s.devices
    IN  Outcome([s EXCEPT !.devices = ds],
                JSONstringify([customers |-> s.customers,
                               technicians |-> s.technicians,
                               devices |-> ds,
                               tickets |-> s.tickets]),
                Undefined)

\* addTicket with the new ticket pushed at the end
addTicket_appends(s, t, id, now) ==
    LET item == Spread([id |-> id, createdAt |-> <<now>>, updatedAt |-> <<now>>], t)
        ts   == s.tickets \o <<item>>
    IN  Outcome([s EXCEPT !.tickets = ts],
                JSONstringify([customers |-> s.customers,
                               technicians |-> s.technicians,
                               devices |-> s.devices,
                               tickets |-> ts]),
                Undefined)

\* addTicket reading the clock a second time, later, for updatedAt
addTicket_twoClocks(s, t, id, now) ==
    LET item == Spread([id |-> id, createdAt |-> <<now>>,
                        updatedAt |-> <<now + 1>>], t)
        ts   == <<item>> \o s.tickets
    IN  Outcome([s EXCEPT !.tickets = ts],
                JSONstringify([customers |-> s.customers,
                               technicians |-> s.technicians,
                               devices |-> s.devices,
                               tickets |-> ts]),
                Undefined)

addTicket(s, t, id, now) ==
    LET item == Spread([id |-> id, createdAt |-> <<now>>, updatedAt |-> <<now>>], t)
        ts   == <<item>> \o s.tickets
    IN  Outcome([s EXCEPT !.tickets = ts],
                JSONstringify([customers |-> s.customers,
                               technicians |-> s.technicians,
                               devices |-> s.devices,
                               tickets |-> ts]),
                Undefined)

\* the merge without the refresh of updatedAt
Merged_noStamp(tk, updates, now) == Spread(tk, updates)

\* { ...tk, ...updates, updatedAt: new Date().toISOString() }
Merged(tk, updates, now) ==
    Spread(Spread(tk, updates), [updatedAt |-> <<now>>])

\* updateTicket writing the tickets it started from
updateTicket_staleWrite(s, id, updates, now) ==
    LET ts == [i \in 1..Len(s.tickets) |->
                 IF Get(s.tickets[i], "id") = id
                 THEN Merged(s.tickets[i], updates, now)
                 ELSE s.tickets[i]]
    IN  Outcome([s EXCEPT !.tickets = ts],
                JSONstringify([customers |-> s.customers,
                               technicians |-> s.technicians,
                               devices |-> s.devices,
                               tickets |-> s.tickets]),
                Undefined)

\* updateTicket refreshing updatedAt of every ticket
updateTicket_stampsAll(s, id, updates, now) ==
    LET ts == [i \in 1..Len(s.tickets) |->
                 IF Get(s.tickets[i], "id") = id
                 THEN Merged(s.tickets[i], updates, now)
                 ELSE Spread(s.tickets[i], [updatedAt |-> <<now>>])]
    IN  Outcome([s EXCEPT !.tickets = ts],
                JSONstringify([customers |-> s.customers,
                               technicians |-> s.technicians,
                               devices |-> s.devices,
                               tickets |-> ts]),
                Undefined)

\* updateTicket leaving alone the tickets that are Cancelled or Picked Up
updateTicket_closedStay(s, id, updates, now) ==
    LET ts == [i \in 1..Len(s.tickets) |->
                 IF /\ Get(s.tickets[i], "id") = id
                    /\ Get(s.tickets[i], "status") \notin
                          {"Cancelled", "Picked Up"}
                 THEN Merged(s.tickets[i], updates, now)
                 ELSE s.tickets[i]]
    IN  Outcome([s EXCEPT !.tickets = ts],
                JSONstringify([customers |-> s.customers,
                               technicians |-> s.technicians,
                               devices |-> s.devices,
                               tickets |-> ts]),
                Undefined)

updateTicket(s, id, updates, now) ==
    LET ts == [i \in 1..Len(s.tickets) |->
                 IF Get(s.tickets[i], "id") = id
                 THEN Merged(s.tickets[i], updates, now)
                 ELSE s.tickets[i]]
    IN  Outcome([s EXCEPT !.tickets = ts],
                JSONstringify([customers |-> s.customers,
                               technicians |-> s.technicians,
                               devices |-> s.devices,
                               tickets |-> ts]),
                Undefined)

\* removeTicket dropping only the first ticket that has the id
removeTicket_first(s, id) ==
    LET hit == {i \in 1..Len(s.tickets) : Get(s.tickets[i], "id") = id}
        k   == IF hit = {} THEN 0
               ELSE CHOOSE i \in hit : \A j \in hit : i <= j
        ts  == [i \in 1..(Len(s.tickets) - (IF k = 0 THEN 0 ELSE 1)) |->
                  IF k = 0 \/ i < k THEN s.tickets[i] ELSE s.tickets[i + 1]]
    IN  Outcome([s EXCEPT !.tickets = ts],
                JSONstringify([customers |-> s.customers,
                               technicians |-> s.technicians,
                               devices |-> s.devices,
                               tickets |-> ts]),
                Undefined)

removeTicket(s, id) ==
    LET ts == SelectSeq(s.tickets, LAMBDA tk : Get(tk, "id") # id)
    IN  Outcome([s EXCEPT !.tickets = ts],
                JSONstringify([customers |-> s.customers,
                               technicians |-> s.technicians,
                               devices |-> s.devices,
                               tickets |-> ts]),
                Undefined)

\* importAll emptying the store before it parses
importAll_clearsFirst(s, item, json) ==
    IF ParseThrows(json)
    THEN Outcome(EmptyState, item, "SyntaxError: Unexpected token in JSON")
    ELSE IF PropThrows(json)
         THEN Outcome(s, item, "TypeError: Cannot read properties of null")
         ELSE LET next == Parsed(json)
              IN  Outcome(next, JSONstringify(next), Null)

\* importAll putting the imported items in front of the present ones
importAll_merges(s, item, json) ==
    IF ParseThrows(json)
    THEN Outcome(s, item, "SyntaxError: Unexpected token in JSON")
    ELSE IF PropThrows(json)
         THEN Outcome(s, item, "TypeError: Cannot read properties of null")
         ELSE LET next == [k \in Keys |-> PropOrEmpty(json, k) \o s[k]]
              IN  Outcome(next, JSONstringify(next), Null)

importAll(s, item, json) ==
    IF ParseThrows(json)
    THEN Outcome(s, item, "SyntaxError: Unexpected token in JSON")
    ELSE IF PropThrows(json)
         THEN Outcome(s, item, "TypeError: Cannot read properties of null")
         ELSE LET cs == PropOrEmpty(json, "customers")
                  ts == PropOrEmpty(json, "technicians")
                  ds == PropOrEmpty(json, "devices")
                  tk == PropOrEmpty(json, "tickets")
                  next == [customers |-> cs, technicians |-> ts,
                           devices |-> ds, tickets |-> tk]
              IN  Outcome(next, JSONstringify(next), Null)

\* exportAll leaving the technicians out
exportAll_noTechnicians(s) ==
    JSONstringify([customers |-> s.customers, technicians |-> <<>>,
                   devices |-> s.devices, tickets |-> s.tickets])

exportAll(s) ==
    JSONstringify([customers |-> s.customers, technicians |-> s.technicians,
                   devices |-> s.devices, tickets |-> s.tickets])

(***************************************************************************)
(* The arguments the operations are called with, and the texts that reach  *)
(* the store from outside (a pasted import, an item left under STORAGE_KEY *)
(* by an earlier session or another tab).                                  *)
(***************************************************************************)
CustomerArgs ==
    {[name |-> "John Doe", phone |-> "555-0100", email |-> Undefined],
     [name |-> "Ann", phone |-> Undefined, email |-> Undefined]}

TechnicianArgs == {[name |-> "Alice"]}

DeviceArgs ==
    {[type |-> "Laptop", brand |-> "Dell", model |-> "XPS 13",
      serial |-> Undefined]}

TicketArgs ==
    {[customerId |-> "x1", deviceId |-> "x2",
      problemDescription |-> "Won't boot", status |-> "New",
      technicianId |-> Undefined, estimatedCost |-> NoNumber,
      notes |-> Undefined],
     [customerId |-> "u1", deviceId |-> "u2",
      problemDescription |-> "Cracked screen", status |-> "Ready",
      technicianId |-> "x3", estimatedCost |-> <<150>>,
      notes |-> Undefined]}

\* Partial<Ticket>
UpdateArgs ==
    {[status |-> "Ready"],
     [technicianId |-> Undefined, estimatedCost |-> <<75>>],
     [createdAt |-> <<0>>],
     [id |-> "x8"]}

XCustomer == [id |-> "x1", name |-> "Ann"]
XCustomerB == [id |-> "x1", name |-> "Bob", phone |-> "555-0199"]
XDevice == [id |-> "x2", type |-> "Laptop", brand |-> "Dell"]
XTicket ==
    [id |-> "x9", createdAt |-> <<1>>, updatedAt |-> <<2>>, customerId |-> "x1",
     deviceId |-> "x2", problemDescription |-> "Won't boot",
     status |-> "New", technicianId |-> "x3"]
XTicketB ==
    [id |-> "x9", createdAt |-> <<0>>, updatedAt |-> <<0>>, customerId |-> "x1",
     deviceId |-> "x7", problemDescription |-> "No sound",
     status |-> "Cancelled", estimatedCost |-> <<40>>]

XTicketC ==
    [id |-> "x7", createdAt |-> <<0>>, updatedAt |-> <<0>>,
     customerId |-> "x1", deviceId |-> "x2",
     problemDescription |-> "Cracked screen", status |-> "In Progress"]

EmptyText == Text("empty", NoFields, {})
JsonNull  == Text("null", NoFields, {})
Scalar    == Text("scalar", NoFields, {})
DocEmpty  == Text("object", NoFields, {})
\* technicians: null; a ticket whose technician does not exist and whose
\* updatedAt may lie ahead of this machine's clock, and an older ticket
DocShop ==
    Text("object",
         [k \in {"customers", "devices", "tickets"} |->
            CASE k = "customers" -> <<XCustomer>>
              [] k = "devices" -> <<XDevice>>
              [] k = "tickets" -> <<XTicket, XTicketC>>],
         {"technicians"})
\* two customers and two tickets under one id; no technicians, no devices
DocTwins ==
    Text("object",
         [k \in {"customers", "tickets"} |->
            IF k = "customers" THEN <<XCustomer, XCustomerB>>
            ELSE <<XTicket, XTicketB>>],
         {})

\* texts pasted into the import box
Docs == {Garbage, JsonNull, Scalar, DocEmpty, DocShop, DocTwins}

\* what may lie under STORAGE_KEY when the store is created
Items == {NoItem, EmptyText} \cup Docs

TicketIds(s) == {Get(s.tickets[i], "id") : i \in 1..Len(s.tickets)}

Ids(items) == {Get(items[i], "id") : i \in 1..Len(items)}

(***************************************************************************)
(* Steps.  Every step records itself in op.                                *)
(***************************************************************************)
Op(name, id, fields, text, ret) ==
    [name |-> name, id |-> id, fields |-> fields, text |-> text, ret |-> ret]

SetState(s) ==
    /\ customers' = s.customers
    /\ technicians' = s.technicians
    /\ devices' = s.devices
    /\ tickets' = s.tickets

Apply(out) ==
    /\ SetState(out.state)
    /\ localStorage' = out.item

\* the new-ticket form as useState creates it, and as Add Ticket resets it
BlankTicket ==
    [customerId |-> "", deviceId |-> "", problemDescription |-> "",
     status |-> "New", technicianId |-> "", estimatedCost |-> ""]

Init ==
    /\ customers = <<>>
    /\ technicians = <<>>
    /\ devices = <<>>
    /\ tickets = <<>>
    /\ localStorage \in Items
    /\ clock = 0
    /\ uuids = 0
    /\ steps = 0
    /\ mounted = FALSE
    /\ rendered = EmptyState
    /\ commit = "none"
    /\ effects = <<>>
    /\ bootItem = localStorage
    /\ filter = "All"
    /\ search = ""
    /\ newTicket = BlankTicket
    /\ peer = EmptyState
    /\ op = Op("init", "", NoFields, NoItem, Undefined)

\* one more step is taken
Called ==
    /\ steps < MaxSteps
    /\ steps' = steps + 1

\* a millisecond passes
Tick ==
    /\ Called
    /\ clock' = clock + 1
    /\ op' = Op("tick", "", NoFields, NoItem, Undefined)
    /\ UNCHANGED <<store, localStorage, uuids, page, peer>>

Hydrate ==
    /\ Called
    /\ SetState(hydrate(State, localStorage))
    /\ op' = Op("hydrate", "", NoFields, NoItem,
                IF hydrateThrows(localStorage) THEN Thrown ELSE Undefined)
    /\ UNCHANGED <<localStorage, clock, uuids, page, peer>>

Save ==
    /\ Called
    /\ localStorage' = save(State)
    /\ op' = Op("save", "", NoFields, NoItem, Undefined)
    /\ UNCHANGED <<store, clock, uuids, page, peer>>

AddCustomer(c) ==
    /\ Called
    /\ uuids' = uuids + 1
    /\ Apply(addCustomer(State, c, randomUUID(uuids')))
    /\ op' = Op("addCustomer", randomUUID(uuids'), c, NoItem, Undefined)
    /\ UNCHANGED <<clock, page, peer>>

AddTechnician(t) ==
    /\ Called
    /\ uuids' = uuids + 1
    /\ Apply(addTechnician(State, t, randomUUID(uuids')))
    /\ op' = Op("addTechnician", randomUUID(uuids'), t, NoItem, Undefined)
    /\ UNCHANGED <<clock, page, peer>>

AddDevice(d) ==
    /\ Called
    /\ uuids' = uuids + 1
    /\ Apply(addDevice(State, d, randomUUID(uuids')))
    /\ op' = Op("addDevice", randomUUID(uuids'), d, NoItem, Undefined)
    /\ UNCHANGED <<clock, page, peer>>

AddTicket(t) ==
    /\ Called
    /\ uuids' = uuids + 1
    /\ Apply(addTicket(State, t, randomUUID(uuids'), clock))
    /\ op' = Op("addTicket", randomUUID(uuids'), t, NoItem, Undefined)
    /\ UNCHANGED <<clock, page, peer>>

UpdateTicket(id, updates) ==
    /\ Called
    /\ Apply(updateTicket(State, id, updates, clock))
    /\ op' = Op("updateTicket", id, updates, NoItem, Undefined)
    /\ UNCHANGED <<clock, uuids, page, peer>>

RemoveTicket(id) ==
    /\ Called
    /\ Apply(removeTicket(State, id))
    /\ op' = Op("removeTicket", id, NoFields, NoItem, Undefined)
    /\ UNCHANGED <<clock, uuids, page, peer>>

ImportAll(json) ==
    /\ Called
    /\ Apply(importAll(State, localStorage, json))
    /\ op' = Op("importAll", "", NoFields, json,
                importAll(State, localStorage, json).ret)
    /\ UNCHANGED <<clock, uuids, page, peer>>

ExportAll ==
    /\ Called
    /\ op' = Op("exportAll", "", NoFields, exportAll(State), Undefined)
    /\ UNCHANGED <<store, localStorage, clock, uuids, page, peer>>

\* importAll(exportAll())
ImportExported == ImportAll(exportAll(State))

Next ==
    \/ Tick
    \/ Hydrate
    \/ Save
    \/ \E c \in CustomerArgs : AddCustomer(c)
    \/ \E t \in TechnicianArgs : AddTechnician(t)
    \/ \E d \in DeviceArgs : AddDevice(d)
    \/ \E t \in TicketArgs : AddTicket(t)
    \/ \E id \in TicketIds(State) \cup {"u0"}, updates \in UpdateArgs :
          UpdateTicket(id, updates)
    \/ \E id \in TicketIds(State) \cup {"u0"} : RemoveTicket(id)
    \/ \E json \in Docs : ImportAll(json)
    \/ ExportAll
    \/ ImportExported

Spec == Init /\ [][Next]_vars

(***************************************************************************)
(* The store when localStorage.setItem may throw (the quota is exceeded,   *)
(* storage is disabled).  QuotaSpec has every step of Spec and, for every  *)
(* operation that writes, the step in which its write is refused.          *)
(***************************************************************************)
QuotaMessage == "QuotaExceededError"

\* set((s) => { ...; localStorage.setItem(...); return next; }) when setItem
\* throws: the updater never returns, the store keeps s, the item is not
\* written and the exception reaches the caller
updaterThrows(s, item) == Outcome(s, item, Thrown)

\* importAll when its setItem throws: set({...}) has already run, the item
\* is not written, the catch returns the exception's message
importAllRefused(s, item, json) ==
    IF ParseThrows(json) \/ PropThrows(json)
    THEN importAll(s, item, json)
    ELSE Outcome(importAll(s, item, json).state, item, QuotaMessage)

\* one of the six operations built on set((s) => ...), its write refused;
\* an add has drawn its id before the write
UpdaterRefused(name, id, fields) ==
    /\ Called
    /\ uuids' = IF name \in {"updateTicket", "removeTicket"} THEN uuids
                ELSE uuids + 1
    /\ Apply(updaterThrows(State, localStorage))
    /\ op' = Op(name, IF name \in {"updateTicket", "removeTicket"} THEN id
                      ELSE randomUUID(uuids'),
                fields, NoItem, Thrown)
    /\ UNCHANGED <<clock, page, peer>>

ImportAllRefused(json) ==
    /\ Called
    /\ Apply(importAllRefused(State, localStorage, json))
    /\ op' = Op("importAll", "", NoFields, json,
                importAllRefused(State, localStorage, json).ret)
    /\ UNCHANGED <<clock, uuids, page, peer>>

\* save() when its setItem throws: nothing is written, the caller gets the
\* exception
SaveRefused ==
    /\ Called
    /\ op' = Op("save", "", NoFields, NoItem, Thrown)
    /\ UNCHANGED <<store, localStorage, clock, uuids, page, peer>>

QuotaNext ==
    \/ Next
    \/ \E c \in CustomerArgs : UpdaterRefused("addCustomer", "", c)
    \/ \E t \in TechnicianArgs : UpdaterRefused("addTechnician", "", t)
    \/ \E d \in DeviceArgs : UpdaterRefused("addDevice", "", d)
    \/ \E t \in TicketArgs : UpdaterRefused("addTicket", "", t)
    \/ \E id \in TicketIds(State) \cup {"u0"}, updates \in UpdateArgs :
          UpdaterRefused("updateTicket", id, updates)
    \/ \E id \in TicketIds(State) \cup {"u0"} :
          UpdaterRefused("removeTicket", id, NoFields)
    \/ \E json \in Docs : ImportAllRefused(json)
    \/ SaveRefused

QuotaSpec == Init /\ [][QuotaNext]_vars

(***************************************************************************)
(* The store as tickets are opened in any of the seven statuses and moved  *)
(* from status to status.                                                  *)
(***************************************************************************)
StatusTicketArgs ==
    {[customerId |-> "x1", deviceId |-> "x2",
      problemDescription |-> "Won't boot", status |-> st,
      technicianId |-> Undefined, estimatedCost |-> NoNumber,
      notes |-> Undefined] : st \in Status}

StatusNext ==
    \/ \E t \in StatusTicketArgs : AddTicket(t)
    \/ \E id \in TicketIds(State), st \in Status :
          UpdateTicket(id, [status |-> st])

\* a store created where nothing has been stored yet
FreshInit == Init /\ localStorage = NoItem

StatusSpec == FreshInit /\ [][StatusNext]_vars

(***************************************************************************)
(* Two tabs of one origin.  Each tab has its own store (this tab's is the  *)
(* four collections, the second tab's is peer); both read and write the    *)
(* one item under STORAGE_KEY.  The page registers no storage listener, so *)
(* a tab learns of the other's writes only when it hydrates.  The ids of   *)
(* crypto.randomUUID() and the clock are the machine's.                    *)
(***************************************************************************)
\* a write that merges what the record holds under other ids
PeerApply_merges(out) ==
    /\ peer' = out.state
    /\ localStorage' =
          IF localStorage.kind # "object" THEN out.item
          ELSE Text("object",
                    [k \in Keys |->
                       out.item.value[k] \o
                       SelectSeq(PropOrEmpty(localStorage, k),
                                 LAMBDA e : Get(e, "id") \notin
                                               Ids(out.item.value[k]))],
                    {})
    /\ UNCHANGED store

\* the second tab's set() and setItem()
PeerApply(out) ==
    /\ peer' = out.state
    /\ localStorage' = out.item
    /\ UNCHANGED store

\* the second tab loads the record
PeerHydrate ==
    /\ Called
    /\ peer' = hydrate(peer, localStorage)
    /\ op' = Op("peerHydrate", "", NoFields, NoItem, Undefined)
    /\ UNCHANGED <<store, localStorage, clock, uuids, page>>

PeerAddCustomer(c) ==
    /\ Called
    /\ uuids' = uuids + 1
    /\ PeerApply(addCustomer(peer, c, randomUUID(uuids')))
    /\ op' = Op("peerAddCustomer", randomUUID(uuids'), c, NoItem, Undefined)
    /\ UNCHANGED <<clock, page>>

PeerAddTechnician(t) ==
    /\ Called
    /\ uuids' = uuids + 1
    /\ PeerApply(addTechnician(peer, t, randomUUID(uuids')))
    /\ op' = Op("peerAddTechnician", randomUUID(uuids'), t, NoItem, Undefined)
    /\ UNCHANGED <<clock, page>>

PeerAddDevice(d) ==
    /\ Called
    /\ uuids' = uuids + 1
    /\ PeerApply(addDevice(peer, d, randomUUID(uuids')))
    /\ op' = Op("peerAddDevice", randomUUID(uuids'), d, NoItem, Undefined)
    /\ UNCHANGED <<clock, page>>

PeerAddTicket(t) ==
    /\ Called
    /\ uuids' = uuids + 1
    /\ PeerApply(addTicket(peer, t, randomUUID(uuids'), clock))
    /\ op' = Op("peerAddTicket", randomUUID(uuids'), t, NoItem, Undefined)
    /\ UNCHANGED <<clock, page>>

PeerUpdateTicket(id, updates) ==
    /\ Called
    /\ PeerApply(updateTicket(peer, id, updates, clock))
    /\ op' = Op("peerUpdateTicket", id, updates, NoItem, Undefined)
    /\ UNCHANGED <<clock, uuids, page>>

PeerRemoveTicket(id) ==
    /\ Called
    /\ PeerApply(removeTicket(peer, id))
    /\ op' = Op("peerRemoveTicket", id, NoFields, NoItem, Undefined)
    /\ UNCHANGED <<clock, uuids, page>>

TabsNext ==
    \/ Hydrate
    \/ \E c \in CustomerArgs : AddCustomer(c)
    \/ \E t \in TechnicianArgs : AddTechnician(t)
    \/ \E d \in DeviceArgs : AddDevice(d)
    \/ \E t \in TicketArgs : AddTicket(t)
    \/ \E id \in TicketIds(State), updates \in UpdateArgs :
          UpdateTicket(id, updates)
    \/ \E id \in TicketIds(State) : RemoveTicket(id)
    \/ PeerHydrate
    \/ \E c \in CustomerArgs : PeerAddCustomer(c)
    \/ \E t \in TechnicianArgs : PeerAddTechnician(t)
    \/ \E d \in DeviceArgs : PeerAddDevice(d)
    \/ \E t \in TicketArgs : PeerAddTicket(t)
    \/ \E id \in TicketIds(peer), updates \in UpdateArgs :
          PeerUpdateTicket(id, updates)
    \/ \E id \in TicketIds(peer) : PeerRemoveTicket(id)

TabsSpec == Init /\ [][TabsNext]_vars

(***************************************************************************)
(* HomePage (page.tsx 188-520).  A render captures the store's             *)
(* collections; the passive effects of a commit run in order, each with    *)
(* the values its render captured, before the render that a set() inside   *)
(* them schedules; a user's action is handled when the page shows the      *)
(* store's current state and no effect is pending.  The controls of a      *)
(* ticket are those of the tickets listed.  In AppSpec the status filter   *)
(* and the search box keep their initial values ('All', ''), so every      *)
(* ticket is listed; ViewSpec adds the two controls.  In AppSpec a form is  *)
(* filled and submitted in one step, the fields drawn from what the page   *)
(* offers at that moment; FormSpec keeps the new-ticket form as state, set *)
(* field by field and read when Add Ticket is clicked.                     *)
(***************************************************************************)
\* the dependency array of the demo-seed effect
Lengths(s) ==
    <<Len(s.customers), Len(s.devices), Len(s.technicians), Len(s.tickets)>>

\* the first render: the store is as created
Mount ==
    /\ ~mounted
    /\ mounted' = TRUE
    /\ rendered' = State
    /\ commit' = "mount"
    /\ effects' = <<"hydrate", "seed">>
    /\ op' = Op("render", "", NoFields, NoItem, Undefined)
    /\ UNCHANGED <<store, localStorage, clock, uuids, steps, bootItem, view,
                   peer>>

\* a render scheduled by set(): the seed effect runs again when a length
\* in its dependency array has changed
Rerender ==
    /\ mounted /\ effects = <<>> /\ rendered # State
    /\ rendered' = State
    /\ commit' = "update"
    /\ effects' = IF Lengths(State) # Lengths(rendered) THEN <<"seed">>
                  ELSE <<>>
    /\ bootItem' = NoItem
    /\ op' = Op("render", "", NoFields, NoItem, Undefined)
    /\ UNCHANGED <<store, localStorage, clock, uuids, steps, mounted, view,
                   peer>>

\* useEffect(() => { hydrate(); }, [hydrate])
HydrateEffect ==
    /\ effects # <<>> /\ Head(effects) = "hydrate"
    /\ effects' = Tail(effects)
    /\ SetState(hydrate(State, localStorage))
    /\ op' = Op("hydrateEffect", "", NoFields, NoItem, Undefined)
    /\ UNCHANGED <<localStorage, clock, uuids, steps, mounted, rendered,
                   commit, bootItem, view, peer>>

\* the record the demo-seed effect writes
SeedText(n, now) ==
    LET cust == [id |-> randomUUID(n + 1), name |-> "John Doe",
                 phone |-> "555-0100", email |-> "john@example.com"]
        tech == [id |-> randomUUID(n + 2), name |-> "Alice"]
        dev  == [id |-> randomUUID(n + 3), type |-> "Laptop",
                 brand |-> "Dell", model |-> "XPS 13", serial |-> "ABC123"]
        tk   == [id |-> randomUUID(n + 4), createdAt |-> <<now>>,
                 updatedAt |-> <<now>>, customerId |-> cust.id,
                 deviceId |-> dev.id,
                 problemDescription |-> "Won't boot, possible SSD failure",
                 status |-> "Diagnosing", technicianId |-> tech.id,
                 estimatedCost |-> <<150>>,
                 notes |-> "Run diagnostics, check SSD health"]
    IN  JSONstringify([customers |-> <<cust>>, technicians |-> <<tech>>,
                       devices |-> <<dev>>, tickets |-> <<tk>>])

\* if (customers.length === 0 && ... && tickets.length === 0), on the
\* values the render captured
SeedsDemo(r) ==
    /\ Len(r.customers) = 0
    /\ Len(r.technicians) = 0
    /\ Len(r.devices) = 0
    /\ Len(r.tickets) = 0

SeedEffect ==
    /\ effects # <<>> /\ Head(effects) = "seed"
    /\ effects' = Tail(effects)
    /\ IF SeedsDemo(rendered)
       THEN /\ uuids' = uuids + 4
            /\ localStorage' = SeedText(uuids, clock)
            /\ SetState(hydrate(State, SeedText(uuids, clock)))
       ELSE UNCHANGED <<store, localStorage, uuids>>
    /\ op' = Op("seedEffect", "", NoFields, NoItem, Undefined)
    /\ UNCHANGED <<clock, steps, mounted, rendered, commit, bootItem, view,
                   peer>>

\* String.prototype.toLowerCase, on the letters A to Z
Upper == "ABCDEFGHIJKLMNOPQRSTUVWXYZ"
Lower == "abcdefghijklmnopqrstuvwxyz"

LowerOf ==
    [c \in {SubSeq(Upper, i, i) : i \in 1..Len(Upper)} |->
        LET i == CHOOSE j \in 1..Len(Upper) : SubSeq(Upper, j, j) = c
        IN  SubSeq(Lower, i, i)]

RECURSIVE toLowerCase(_)
toLowerCase(x) ==
    IF x = "" THEN ""
    ELSE LET c == SubSeq(x, 1, 1)
         IN  (IF c \in DOMAIN LowerOf THEN LowerOf[c] ELSE c)
                 \o toLowerCase(SubSeq(x, 2, Len(x)))

\* hay.includes(x) testing only the start of hay
includes_startsWith(hay, x) ==
    Len(x) <= Len(hay) /\ SubSeq(hay, 1, Len(x)) = x

\* hay.includes(x)
includes(hay, x) ==
    \E i \in 0..(Len(hay) - Len(x)) : SubSeq(hay, i + 1, i + Len(x)) = x

\* xs.join(' ')
RECURSIVE join(_)
join(xs) ==
    IF xs = <<>> THEN ""
    ELSE IF Len(xs) = 1 THEN xs[1]
         ELSE xs[1] \o " " \o join(Tail(xs))

\* xs.filter(Boolean), xs texts or undefined
filterBoolean(xs) == SelectSeq(xs, LAMBDA x : x # Undefined /\ x # "")

\* items.find((e) => e.id === id); an object without keys stands for the
\* undefined of no match, every key of which reads (through ?.) as undefined
find(items, id) ==
    LET hit == {i \in 1..Len(items) : Get(items[i], "id") = id}
    IN  IF hit = {} THEN NoFields
        ELSE items[CHOOSE i \in hit : \A j \in hit : i <= j]

\* the text a ticket is searched in
hay(s, t) ==
    LET cust == find(s.customers, Get(t, "customerId"))
        dev  == find(s.devices, Get(t, "deviceId"))
        tech == find(s.technicians, Get(t, "technicianId"))
    IN  toLowerCase(join(filterBoolean(
            <<Get(t, "problemDescription"),
              Get(cust, "name"), Get(cust, "phone"), Get(cust, "email"),
              Get(dev, "brand"), Get(dev, "model"), Get(dev, "serial"),
              Get(tech, "name")>>)))

\* the useMemo of the listed tickets, on the collections s of the render,
\* the status filter f and the search term x
filteredTickets(s, f, x) ==
    SelectSeq(s.tickets,
              LAMBDA t :
                 /\ f = "All" \/ Get(t, "status") = f
                 /\ x = "" \/ includes(hay(s, t), toLowerCase(x)))

\* the tickets the page lists
Listed == filteredTickets(rendered, filter, search)

\* the page shows the store's state and waits for the user
Idle == mounted /\ effects = <<>> /\ rendered = State

\* a handler's call of a store operation, or none
Handled(name, id, fields, text, out) ==
    /\ Idle
    /\ Called
    /\ Apply(out)
    /\ op' = Op(name, id, fields, text, out.ret)
    /\ UNCHANGED <<clock, mounted, rendered, commit, effects, bootItem, view,
                   peer>>

Untouched == Outcome(State, localStorage, Undefined)

\* x || undefined
OrUndefined(x) == IF x = "" THEN Undefined ELSE x

\* Number(x) of the text of a number input
Number(x) ==
    CASE x = "150" -> 150
      [] x = "0" -> 0
      [] x = "-20" -> -20

\* x ? Number(x) : undefined
NumberOrUndefined(x) == IF x = "" THEN NoNumber ELSE <<Number(x)>>

CustomerForms ==
    {[name |-> "Ann", phone |-> "", email |-> ""],
     [name |-> "", phone |-> "555-0199", email |-> ""]}

TechnicianForms == {[name |-> "Bob"], [name |-> ""]}

DeviceForms ==
    {[type |-> "Phone", brand |-> "", model |-> "", serial |-> "SN1"]}

TicketForms ==
    {[customerId |-> c, deviceId |-> d, problemDescription |-> p,
      status |-> "New", technicianId |-> t, estimatedCost |-> e] :
        c \in {""} \cup Ids(rendered.customers),
        d \in {""} \cup Ids(rendered.devices),
        p \in {"", "No sound"},
        t \in {""} \cup Ids(rendered.technicians),
        e \in {"", "-20"}}

ClickAddCustomer(form) ==
    /\ uuids' = IF form.name = "" THEN uuids ELSE uuids + 1
    /\ Handled("clickAddCustomer", "", form, NoItem,
               IF form.name = ""                     \* alert('Name required')
               THEN Untouched
               ELSE addCustomer(State,
                                [name |-> form.name,
                                 phone |-> OrUndefined(form.phone),
                                 email |-> OrUndefined(form.email)],
                                randomUUID(uuids')))

ClickAddTechnician(form) ==
    /\ uuids' = IF form.name = "" THEN uuids ELSE uuids + 1
    /\ Handled("clickAddTechnician", "", form, NoItem,
               IF form.name = ""
               THEN Untouched
               ELSE addTechnician(State, [name |-> form.name],
                                  randomUUID(uuids')))

ClickAddDevice(form) ==
    /\ uuids' = IF form.type = "" THEN uuids ELSE uuids + 1
    /\ Handled("clickAddDevice", "", form, NoItem,
               IF form.type = ""
               THEN Untouched
               ELSE addDevice(State,
                              [type |-> form.type,
                               brand |-> OrUndefined(form.brand),
                               model |-> OrUndefined(form.model),
                               serial |-> OrUndefined(form.serial)],
                              randomUUID(uuids')))

\* the Add Ticket button not looking at the customer
TicketFormRejected_noCustomer(form) ==
    \/ form.deviceId = ""
    \/ form.problemDescription = ""

\* the Add Ticket button not looking at the device
TicketFormRejected_noDevice(form) ==
    \/ form.customerId = ""
    \/ form.problemDescription = ""

\* the Add Ticket button rejects the form
TicketFormRejected(form) ==
    \/ form.customerId = ""
    \/ form.deviceId = ""
    \/ form.problemDescription = ""

ClickAddTicket(form) ==
    /\ uuids' = IF TicketFormRejected(form) THEN uuids ELSE uuids + 1
    /\ Handled("clickAddTicket", "", form, NoItem,
               IF TicketFormRejected(form)
               THEN Untouched
               ELSE addTicket(State,
                              [customerId |-> form.customerId,
                               deviceId |-> form.deviceId,
                               problemDescription |->
                                   form.problemDescription,
                               status |-> form.status,
                               technicianId |->
                                   OrUndefined(form.technicianId),
                               estimatedCost |->
                                   NumberOrUndefined(form.estimatedCost),
                               notes |-> Undefined],
                              randomUUID(uuids'), clock))

\* the status select of a listed ticket
ChangeStatus(id, st) ==
    /\ Handled("changeStatus", id, [status |-> st], NoItem,
               updateTicket(State, id, [status |-> st], clock))
    /\ UNCHANGED uuids

\* the technician select of a listed ticket
ChangeTechnician(id, x) ==
    /\ Handled("changeTechnician", id, [technicianId |-> x], NoItem,
               updateTicket(State, id, [technicianId |-> OrUndefined(x)],
                            clock))
    /\ UNCHANGED uuids

\* the estimated-cost input of a listed ticket
ChangeCost(id, x) ==
    /\ Handled("changeCost", id, [estimatedCost |-> x], NoItem,
               updateTicket(State, id,
                            [estimatedCost |-> NumberOrUndefined(x)], clock))
    /\ UNCHANGED uuids

ClickDelete(id) ==
    /\ Handled("clickDelete", id, NoFields, NoItem, removeTicket(State, id))
    /\ UNCHANGED uuids

\* the Import Data button, with text in the import box
ClickImport(text) ==
    /\ Handled("clickImport", "", NoFields, text,
               importAll(State, localStorage, text))
    /\ UNCHANGED uuids

\* the Export button: the text goes to a download
ClickExport ==
    /\ Handled("clickExport", "", NoFields, exportAll(State), Untouched)
    /\ UNCHANGED uuids

\* time passes while the page waits
AppTick ==
    /\ Idle
    /\ Called
    /\ clock' = clock + 1
    /\ op' = Op("tick", "", NoFields, NoItem, Undefined)
    /\ UNCHANGED <<store, localStorage, uuids, page, peer>>

AppNext ==
    \/ Mount
    \/ HydrateEffect
    \/ SeedEffect
    \/ Rerender
    \/ AppTick
    \/ \E form \in CustomerForms : ClickAddCustomer(form)
    \/ \E form \in TechnicianForms : ClickAddTechnician(form)
    \/ \E form \in DeviceForms : ClickAddDevice(form)
    \/ \E form \in TicketForms : ClickAddTicket(form)
    \/ \E id \in Ids(Listed), st \in {"Ready", "Cancelled"} :
          ChangeStatus(id, st)
    \/ \E id \in Ids(Listed),
          x \in {""} \cup Ids(rendered.technicians) : ChangeTechnician(id, x)
    \/ \E id \in Ids(Listed), x \in {"", "0", "-20"} :
          ChangeCost(id, x)
    \/ \E id \in Ids(Listed) : ClickDelete(id)
    \/ \E text \in Docs \cup {EmptyText} : ClickImport(text)
    \/ ClickExport

AppSpec == Init /\ [][AppNext]_vars

\* the options of the status filter offered in the model, and the terms typed
\* into the search box
Filters == {"All", "New", "Ready", "Cancelled"}

Searches == {"", "dell", "DELL", "boot ann", "bob", "Alice"}

\* setFilter(e.target.value)
SetFilter(f) ==
    /\ Idle
    /\ Called
    /\ filter' = f
    /\ op' = Op("setFilter", "", [status |-> f], NoItem, Undefined)
    /\ UNCHANGED <<store, localStorage, clock, uuids, mounted, rendered,
                   commit, effects, bootItem, search, newTicket, peer>>

\* setSearch(e.target.value)
SetSearch(x) ==
    /\ Idle
    /\ Called
    /\ search' = x
    /\ op' = Op("setSearch", "", [search |-> x], NoItem, Undefined)
    /\ UNCHANGED <<store, localStorage, clock, uuids, mounted, rendered,
                   commit, effects, bootItem, filter, newTicket, peer>>

\* the page as the list is examined: data is imported, the filter and the
\* search term are set, and the controls of the listed tickets are used
ViewNext ==
    \/ Mount
    \/ HydrateEffect
    \/ SeedEffect
    \/ Rerender
    \/ \E f \in Filters : SetFilter(f)
    \/ \E x \in Searches : SetSearch(x)
    \/ \E text \in {DocEmpty, DocShop, DocTwins} : ClickImport(text)
    \/ \E id \in Ids(Listed), st \in {"Ready", "Cancelled"} :
          ChangeStatus(id, st)
    \/ \E id \in Ids(Listed),
          x \in {""} \cup Ids(rendered.technicians) : ChangeTechnician(id, x)
    \/ \E id \in Ids(Listed) : ClickDelete(id)

ViewSpec == Init /\ [][ViewNext]_vars

\* the page as the new-ticket form is filled field by field: each select
\* offers '' and the ids of the entities rendered
FieldOptions ==
    [customerId |-> {""} \cup Ids(rendered.customers),
     deviceId |-> {""} \cup Ids(rendered.devices),
     technicianId |-> {""} \cup Ids(rendered.technicians),
     problemDescription |-> {"", "No sound"}]

\* setNewTicket((s) => ({ ...s, [f]: e.target.value }))
SetNewTicket(f, v) ==
    /\ Idle
    /\ newTicket[f] # v
    /\ newTicket' = [newTicket EXCEPT ![f] = v]
    /\ op' = Op("setNewTicket", "", NoFields, NoItem, Undefined)
    /\ UNCHANGED <<store, localStorage, clock, uuids, steps, mounted,
                   rendered, commit, effects, bootItem, filter, search, peer>>

\* the Add Ticket button, over the form as it stands; an accepted form is
\* reset
SubmitNewTicket ==
    /\ Idle
    /\ Called
    /\ uuids' = IF TicketFormRejected(newTicket) THEN uuids ELSE uuids + 1
    /\ Apply(IF TicketFormRejected(newTicket)
             THEN Untouched
             ELSE addTicket(State,
                            [customerId |-> newTicket.customerId,
                             deviceId |-> newTicket.deviceId,
                             problemDescription |->
                                 newTicket.problemDescription,
                             status |-> newTicket.status,
                             technicianId |->
                                 OrUndefined(newTicket.technicianId),
                             estimatedCost |->
                                 NumberOrUndefined(newTicket.estimatedCost),
                             notes |-> Undefined],
                            randomUUID(uuids'), clock))
    /\ newTicket' = IF TicketFormRejected(newTicket) THEN newTicket
                    ELSE BlankTicket
    /\ op' = Op("clickAddTicket", "", newTicket, NoItem, Undefined)
    /\ UNCHANGED <<clock, mounted, rendered, commit, effects, bootItem,
                   filter, search, peer>>

\* the page used without the import box
FormNext ==
    \/ Mount
    \/ HydrateEffect
    \/ SeedEffect
    \/ Rerender
    \/ \E f \in DOMAIN FieldOptions : \E v \in FieldOptions[f] :
          SetNewTicket(f, v)
    \/ SubmitNewTicket
    \/ \E form \in CustomerForms : ClickAddCustomer(form)
    \/ \E form \in TechnicianForms : ClickAddTechnician(form)
    \/ \E form \in DeviceForms : ClickAddDevice(form)
    \/ \E id \in Ids(Listed),
          x \in {""} \cup Ids(rendered.technicians) : ChangeTechnician(id, x)
    \/ \E id \in Ids(Listed) : ClickDelete(id)

FormSpec == Init /\ [][FormNext]_vars

(***************************************************************************)
(* Properties.                                                             *)
(***************************************************************************)
\* two entities read the same under every key
Same(a, b) == StripUndefined(a) = StripUndefined(b)

SameItems(xs, ys) ==
    /\ Len(xs) = Len(ys)
    /\ \A i \in 1..Len(xs) : Same(xs[i], ys[i])

ArrayUnder(text, k) ==
    IF k \in DOMAIN text.value THEN text.value[k] ELSE <<>>

UniqueIds(items) ==
    \A i, j \in 1..Len(items) :
        i # j => Get(items[i], "id") # Get(items[j], "id")

\* a well-formed record that holds at least one entity
HoldsEntity(text) ==
    /\ text.kind = "object"
    /\ \E k \in DOMAIN text.value : text.value[k] # <<>>
    /\ \A k \in DOMAIN text.value : UniqueIds(text.value[k])

\* C1 (reload survival): when the page loads with a fresh store over a
\* well-formed record that holds at least one entity, then once the mount
\* effects have run the four collections are those stored in that record, and
\* the record still holds them: the demo seed has not overwritten it.
C1_ReloadSurvives ==
    (mounted /\ commit = "mount" /\ effects = <<>> /\ HoldsEntity(bootItem))
        => /\ \A k \in Keys : State[k] = ArrayUnder(bootItem, k)
           /\ localStorage.kind = "object"
           /\ \A k \in Keys :
                ArrayUnder(localStorage, k) = ArrayUnder(bootItem, k)

MutatingOps ==
    {"addCustomer", "addTechnician", "addDevice", "addTicket",
     "updateTicket", "removeTicket"}

\* C2 (persistence mirror): after every completed mutating operation
\* (the adds, updateTicket, removeTicket, an importAll that returned null) the
\* record under the key is an object with exactly the four keys customers,
\* technicians, devices, tickets, each holding the in-memory collection,
\* element for element and in order.
C2_PersistenceMirror ==
    (op.name \in MutatingOps \/ (op.name = "importAll" /\ op.ret = Null))
        => /\ localStorage.kind = "object"
           /\ DOMAIN localStorage.value = Keys
           /\ localStorage.nulls = {}
           /\ \A k \in Keys : SameItems(localStorage.value[k], State[k])

\* a mutating operation has run on a store that holds, in memory, an entity
\* with a key set to undefined, which the record cannot carry
C2_Witness ==
    /\ op.name = "updateTicket"
    /\ customers # <<>>
    /\ \E i \in 1..Len(tickets) :
         /\ "notes" \in DOMAIN tickets[i]
         /\ tickets[i].notes = Undefined
         /\ tickets[i].id = op.id

\* C3 (import of unparseable text): importAll of text that JSON.parse rejects
\* returns an error string, not null, and leaves the four collections and the
\* persisted record as they were.
C3_BadImportChangesNothing ==
    [][(op'.name = "importAll" /\ ParseThrows(op'.text))
          => /\ op'.ret \notin {Null, Undefined, ""}
             /\ State' = State
             /\ localStorage' = localStorage]_vars

C3_Witness ==
    /\ op.name = "importAll"
    /\ op.text = Garbage
    /\ tickets # <<>>
    /\ customers # <<>>

\* C4 (import replaces wholesale): an importAll that succeeds (the text is
\* JSON other than null) returns null and leaves each collection equal to the
\* array under the same key of the imported document, or empty when the
\* document has no such key; nothing of the previous collections is kept.
C4_ImportReplacesWholesale ==
    (op.name = "importAll" /\ op.text.kind \in {"object", "scalar"})
        => /\ op.ret = Null
           /\ \A k \in Keys :
                State[k] = IF k \in DOMAIN op.text.value
                           THEN op.text.value[k]
                           ELSE <<>>

\* a document without technicians or devices was imported over a store that
\* an add had filled
C4_Witness ==
    /\ op.name = "importAll"
    /\ op.text = DocTwins
    /\ uuids > 0
    /\ steps = uuids + 1

\* C5 (round trip): importAll(exportAll()) returns null and leaves the four
\* collections with the same entities, field for field and in order; exportAll
\* changes neither the collections nor the persisted record.
C5_RoundTrip ==
    [][/\ (op'.name = "importAll" /\ op'.text = exportAll(State))
             => /\ op'.ret = Null
                /\ \A k \in Keys : SameItems(State'[k], State[k])
       /\ op'.name = "exportAll"
             => /\ State' = State
                /\ localStorage' = localStorage
                /\ \A k \in Keys : SameItems(op'.text.value[k], State[k])]_vars

\* the store's own export was imported into a store holding a technician, a
\* ticket and a customer whose phone is a key set to undefined
C5_Witness ==
    /\ op.name = "importAll"
    /\ op.text = exportAll(State)
    /\ technicians # <<>>
    /\ tickets # <<>>
    /\ \E i \in 1..Len(customers) : "phone" \notin DOMAIN customers[i]

\* the new item of an add: the id handed out and the fields passed
IsNew(item, o) ==
    /\ item.id = o.id
    /\ \A f \in DOMAIN o.fields : item[f] = o.fields[f]

Prepended(after, before, o) ==
    /\ Len(after) = Len(before) + 1
    /\ IsNew(after[1], o)
    /\ Tail(after) = before

\* C6 (adds prepend): each of addCustomer, addTechnician, addDevice and
\* addTicket makes its collection one longer, puts the new item first, keeps
\* the previous items behind it in their order, and leaves the other three
\* collections unchanged.
C6_AddPrepends ==
    [][/\ op'.name = "addCustomer"
             => /\ Prepended(customers', customers, op')
                /\ UNCHANGED <<technicians, devices, tickets>>
       /\ op'.name = "addTechnician"
             => /\ Prepended(technicians', technicians, op')
                /\ UNCHANGED <<customers, devices, tickets>>
       /\ op'.name = "addDevice"
             => /\ Prepended(devices', devices, op')
                /\ UNCHANGED <<customers, technicians, tickets>>
       /\ op'.name = "addTicket"
             => /\ Prepended(tickets', tickets, op')
                /\ UNCHANGED <<customers, technicians, devices>>]_vars

\* a ticket was added in front of two that were there
C6_Witness ==
    /\ op.name = "addTicket"
    /\ Len(tickets) = 3
    /\ customers # <<>>

\* every key but status and updatedAt reads as before
SameButStatus(after, before) ==
    \A f \in (DOMAIN after \cup DOMAIN before) \ {"status", "updatedAt"} :
        Get(after, f) = Get(before, f)

StatusUpdate(o) ==
    /\ o.name = "updateTicket"
    /\ DOMAIN o.fields = {"status"}

\* C7, as the claim states it: updateTicket(id, {status: s}) on an existing
\* ticket changes of that ticket only status and updatedAt, changes no other
\* ticket and not the order, and makes updatedAt strictly greater than it was.
C7_StrictlyAdvances ==
    [][(StatusUpdate(op') /\ op'.id \in TicketIds(State))
          => /\ Len(tickets') = Len(tickets)
             /\ \A i \in 1..Len(tickets) :
                  IF tickets[i].id = op'.id
                  THEN /\ SameButStatus(tickets'[i], tickets[i])
                       /\ tickets'[i].updatedAt[1] > tickets[i].updatedAt[1]
                  ELSE tickets'[i] = tickets[i]]_vars

\* C7, amended: updateTicket(id, {status: s}) gives every ticket whose id is id
\* the status s and the time of the call as updatedAt and leaves its other
\* fields as they were; every ticket with another id, the order of the tickets
\* and the other three collections are unchanged.  updatedAt becomes strictly
\* greater exactly when the clock reads later than the value it held.
C7_UpdateStatus ==
    [][(StatusUpdate(op') /\ op'.id \in TicketIds(State))
          => /\ Len(tickets') = Len(tickets)
             /\ UNCHANGED <<customers, technicians, devices>>
             /\ \A i \in 1..Len(tickets) :
                  IF tickets[i].id = op'.id
                  THEN /\ SameButStatus(tickets'[i], tickets[i])
                       /\ tickets'[i].status = op'.fields.status
                       /\ tickets'[i].updatedAt = <<clock>>
                       /\ (tickets'[i].updatedAt[1] > tickets[i].updatedAt[1])
                             <=> (clock > tickets[i].updatedAt[1])
                  ELSE tickets'[i] = tickets[i]]_vars

\* a status update reached one of several tickets later than its last write
C7_Witness ==
    /\ StatusUpdate(op)
    /\ Len(tickets) > 1
    /\ \E i, j \in 1..Len(tickets) :
         /\ tickets[i].id = op.id
         /\ tickets[i].status = "Ready"
         /\ tickets[i].createdAt[1] < tickets[i].updatedAt[1]
         /\ tickets[j].id # op.id

\* C8: createdAt (and id) of a ticket never change after its creation: after
\* updateTicket(id, partialFields), whatever partialFields holds, every
\* ticket's createdAt and id are what they were, and the updated ticket's
\* updatedAt is the time of the call.
C8_CreatedAtImmutable ==
    [][op'.name = "updateTicket"
          => /\ Len(tickets') = Len(tickets)
             /\ \A i \in 1..Len(tickets) :
                  /\ Get(tickets'[i], "createdAt") = Get(tickets[i], "createdAt")
                  /\ Get(tickets'[i], "id") = Get(tickets[i], "id")
                  /\ tickets[i].id = op'.id
                        => tickets'[i].updatedAt = <<clock>>]_vars

\* C9: in every reachable state no two entities of one collection have the
\* same id.
C9_UniqueIds == \A k \in Keys : UniqueIds(State[k])

\* C10 (update of an unknown id): updateTicket with an id that no ticket has
\* leaves the tickets as they were, each with its fields and its updatedAt, in
\* the same order, and leaves the other three collections unchanged.
C10_UnknownIdNoOp ==
    [][(op'.name = "updateTicket" /\ op'.id \notin TicketIds(State))
          => /\ tickets' = tickets
             /\ UNCHANGED <<customers, technicians, devices>>]_vars

\* an update with an id never handed out ran on a store with tickets written
\* before the clock's present reading
C10_Witness ==
    /\ op.name = "updateTicket"
    /\ op.id = "u0"
    /\ Len(tickets) > 1
    /\ \E i \in 1..Len(tickets) : tickets[i].updatedAt[1] < clock

\* the items of xs whose id is not id, in their order
Without(xs, id) == SelectSeq(xs, LAMBDA x : Get(x, "id") # id)

\* C11 (removeTicket): removeTicket(id) leaves exactly the tickets whose id is
\* not id, in their order, and leaves customers, technicians and devices as
\* they were; a second removeTicket(id) on the resulting state sets the same
\* collections and writes the same record again.
C11_RemoveTicket ==
    [][op'.name = "removeTicket"
          => /\ tickets' = Without(tickets, op'.id)
             /\ op'.id \notin TicketIds(State')
             /\ UNCHANGED <<customers, technicians, devices>>
             /\ removeTicket(State', op'.id).state = State'
             /\ removeTicket(State', op'.id).item = localStorage']_vars

\* the two tickets sharing the id x9 were removed by one call from a store
\* that holds customers, or x9 was removed and the ticket x7 stayed
C11_Witness ==
    /\ op.name = "removeTicket"
    /\ op.id = "x9"
    /\ customers # <<>>
    /\ \/ tickets = <<>> /\ devices = <<>>
       \/ tickets = <<XTicketC>>

\* C12 (atomicity under a failed write): when an operation's write to
\* localStorage is refused (the operation throws, or importAll returns an
\* error string), neither the four collections nor the persisted record
\* change; importAll never returns an error string after having changed the
\* collections.
C12_AtomicWrite ==
    [][(op'.ret = Thrown \/ (op'.name = "importAll" /\ op'.ret # Null))
          => /\ State' = State
             /\ localStorage' = localStorage]_vars

PeerMutatingOps ==
    {"peerAddCustomer", "peerAddTechnician", "peerAddDevice", "peerAddTicket",
     "peerUpdateTicket", "peerRemoveTicket"}

\* the record is an object whose four keys hold the collections of s
Mirrors(text, s) ==
    /\ text.kind = "object"
    /\ DOMAIN text.value = Keys
    /\ text.nulls = {}
    /\ \A k \in Keys : SameItems(text.value[k], s[k])

\* C13 (two tabs, last write wins): after each mutation the persisted record
\* holds exactly the collections of the tab that performed it, whatever the
\* other tab had written to the record before: nothing of the previous record
\* is merged in.
C13_LastWriteWins ==
    /\ op.name \in MutatingOps => Mirrors(localStorage, State)
    /\ op.name \in PeerMutatingOps => Mirrors(localStorage, peer)

\* this tab has just written; the second tab holds a customer that it added
\* and persisted after this tab loaded, and the record no longer has it
C13_Witness ==
    /\ op.name \in MutatingOps
    /\ \E i \in 1..Len(peer.customers) :
         /\ peer.customers[i].id \notin Ids(customers)
         /\ peer.customers[i].id \notin Ids(localStorage.value.customers)

\* the entity a reference joins: the first of items that has the id
Joins(items, e, ref) ==
    \E i \in 1..Len(items) :
        /\ items[i] = e
        /\ Get(e, "id") = ref
        /\ \A j \in 1..(i - 1) : Get(items[j], "id") # ref

\* the texts that a ticket's join contributes: the problem description, then
\* the customer's name, phone and email, the device's brand, model and serial
\* and the technician's name; a value that is missing or empty, and every
\* value of a reference that joins nothing, is the empty text
PartsOf(s, t) ==
    LET part(items, ref, f) ==
            IF \E i \in 1..Len(items) : Joins(items, items[i], ref)
            THEN LET e == CHOOSE e \in {items[i] : i \in 1..Len(items)} :
                              Joins(items, e, ref)
                 IN  IF Get(e, f) = Undefined THEN "" ELSE Get(e, f)
            ELSE ""
        c == Get(t, "customerId")
        d == Get(t, "deviceId")
        u == Get(t, "technicianId")
    IN  <<IF Get(t, "problemDescription") = Undefined THEN ""
          ELSE Get(t, "problemDescription"),
          part(s.customers, c, "name"), part(s.customers, c, "phone"),
          part(s.customers, c, "email"), part(s.devices, d, "brand"),
          part(s.devices, d, "model"), part(s.devices, d, "serial"),
          part(s.technicians, u, "name")>>

\* the parts one after the other, nothing between them
Concatenation(parts) ==
    parts[1] \o parts[2] \o parts[3] \o parts[4] \o parts[5] \o parts[6]
        \o parts[7] \o parts[8]

\* the non-empty parts one after the other, a single space between two
SpaceJoined(parts) ==
    LET full == {i \in 1..Len(parts) : parts[i] # ""}
        last == CHOOSE i \in full : \A j \in full : j <= i
        piece(i) == IF i \notin full THEN ""
                    ELSE IF i = last THEN parts[i] ELSE parts[i] \o " "
    IN  IF full = {} THEN ""
        ELSE piece(1) \o piece(2) \o piece(3) \o piece(4) \o piece(5)
                 \o piece(6) \o piece(7) \o piece(8)

\* term is a substring of text
Occurs(term, text) ==
    \E i \in 0..(Len(text) - Len(term)) :
        text = SubSeq(text, 1, i) \o term
                  \o SubSeq(text, i + Len(term) + 1, Len(text))

\* ys is the order-preserving subsequence of xs at the indices where ok holds
IsSelection(ys, xs, ok) ==
    /\ Len(ys) = Cardinality({i \in 1..Len(xs) : ok[i]})
    /\ \A i \in 1..Len(xs) :
         ok[i] => ys[Cardinality({j \in 1..i : ok[j]})] = xs[i]

StatusPasses(t) == filter = "All" \/ Get(t, "status") = filter

\* search terms that differ in letter case only
CaseVariants == {{"dell", "DELL", "Dell"}, {"Alice", "alice", "ALICE"}}

\* C14, as the claim states it: the tickets listed are the order-preserving
\* subsequence of the tickets that pass the status filter and for which the
\* search term is empty or, lowercased, a substring of the lowercased
\* concatenation of the joined texts.
C14_Concatenation ==
    IsSelection(Listed, rendered.tickets,
                [i \in 1..Len(rendered.tickets) |->
                   /\ StatusPasses(rendered.tickets[i])
                   /\ \/ search = ""
                      \/ Occurs(toLowerCase(search),
                                toLowerCase(Concatenation(
                                    PartsOf(rendered, rendered.tickets[i]))))])

\* C14, amended: the tickets listed are the order-preserving subsequence of
\* the tickets that pass the status filter ('All', or equal to the ticket's
\* status) and for which the search term is empty or, lowercased, a substring
\* of the lowercased text made of the non-empty joined values (problem
\* description, the joined customer's name, phone, email, the joined device's
\* brand, model, serial, the joined technician's name) separated by single
\* spaces; a reference that joins no entity contributes nothing, and a search
\* term that differs only in letter case lists the same tickets.
C14_FilteredTickets ==
    /\ IsSelection(Listed, rendered.tickets,
                   [i \in 1..Len(rendered.tickets) |->
                      /\ StatusPasses(rendered.tickets[i])
                      /\ \/ search = ""
                         \/ Occurs(toLowerCase(search),
                                   toLowerCase(SpaceJoined(
                                       PartsOf(rendered,
                                               rendered.tickets[i]))))])
    /\ \A V \in CaseVariants :
         search \in V
            => \A x \in V : filteredTickets(rendered, filter, x) = Listed

\* of two tickets with a Dell device the search for DELL and the filter New
\* list the one whose status is New, a ticket whose technician joins nothing
C14_Witness ==
    /\ search = "DELL"
    /\ filter = "New"
    /\ Len(rendered.tickets) = 2
    /\ Listed = <<XTicket>>
    /\ technicians = <<>>

\* an empty store has taken addCustomer, then addDevice, and nothing else
CustomerThenDevice ==
    /\ steps = 2
    /\ Len(customers) = 1 /\ customers[1].id = randomUUID(1)
    /\ Len(devices) = 1 /\ devices[1].id = randomUUID(2)
    /\ technicians = <<>>
    /\ tickets = <<>>

\* C15 (first ticket): every addTicket gives the new ticket createdAt equal to
\* updatedAt; and when an empty store has taken addCustomer, then addDevice,
\* an addTicket that references the two ids just created leaves exactly one
\* ticket, whose customerId is the id of the one customer, the customer just
\* added, and whose deviceId is the id of the device just added.
C15_FirstTicket ==
    [][op'.name = "addTicket"
          => /\ tickets'[1].createdAt = tickets'[1].updatedAt
             /\ tickets'[1].createdAt # NoNumber
             /\ (/\ CustomerThenDevice
                 /\ op'.fields.customerId = customers[1].id
                 /\ op'.fields.deviceId = devices[1].id)
                   => /\ Len(tickets') = 1
                      /\ customers' = customers
                      /\ {i \in 1..Len(customers') :
                             customers'[i].id = tickets'[1].customerId} = {1}
                      /\ {i \in 1..Len(devices') :
                             devices'[i].id = tickets'[1].deviceId} = {1}]_vars

\* the scenario has run: customer u1, device u2, then the ticket u3 that
\* references them
C15_Witness ==
    /\ op.name = "addTicket"
    /\ steps = 3
    /\ Len(tickets) = 1
    /\ tickets[1].id = randomUUID(3)
    /\ Len(customers) = 1 /\ customers[1].id = tickets[1].customerId
    /\ Len(devices) = 1 /\ devices[1].id = tickets[1].deviceId

\* an item that is there but is not the JSON of an object
Malformed(item) == item.kind \in {"empty", "garbage", "null", "scalar"}

\* C16 (hydrate over a malformed record): when the item under the key is
\* present but is not the JSON of an object, hydrate returns to its caller
\* without an exception, the four collections are empty after it, as they are
\* after hydrate with no item at all, and the item is left as it was.
C16_MalformedIsNoData ==
    [][(op'.name = "hydrate" /\ Malformed(localStorage))
          => /\ op'.ret # Thrown
             /\ State' = EmptyState
             /\ State' = hydrate(State, NoItem)
             /\ localStorage' = localStorage]_vars

\* hydrate has run over text that JSON.parse rejects, or over the JSON null
C16_Witness ==
    /\ op.name = "hydrate"
    /\ localStorage.kind \in {"garbage", "null"}
    /\ State = EmptyState

\* the step was the click of an Add button over a form that lacks a required
\* field
MissingField(o) ==
    \/ /\ o.name = "clickAddTicket"
       /\ \/ o.fields.customerId = ""
          \/ o.fields.deviceId = ""
          \/ o.fields.problemDescription = ""
    \/ o.name = "clickAddCustomer" /\ o.fields.name = ""
    \/ o.name = "clickAddTechnician" /\ o.fields.name = ""

\* C17 (rejected forms): Add Ticket with an empty customer, device or problem
\* description, Add Customer with an empty name and Add Technician with an
\* empty name leave the four collections and the persisted record as they
\* were.
C17_MissingFieldNoMutation ==
    [][MissingField(op')
          => /\ State' = State
             /\ localStorage' = localStorage]_vars

\* Add Ticket was clicked with a customer and a description but no device,
\* on a page that lists a ticket
C17_Witness ==
    /\ op.name = "clickAddTicket"
    /\ op.fields.deviceId = ""
    /\ op.fields.customerId # ""
    /\ op.fields.problemDescription # ""
    /\ tickets # <<>>

\* C18 (no transition graph): while a call can still be made, every ticket,
\* whatever its status, can be given any of the seven statuses by a single
\* updateTicket(id, {status: s2}): the call is possible, it does not end in
\* an exception, and after it the ticket has the status s2.
C18_AnyStatusToAny ==
    steps < MaxSteps
       => \A i \in 1..Len(tickets), s2 \in Status :
             ENABLED (/\ UpdateTicket(tickets[i].id, [status |-> s2])
                      /\ op'.ret # Thrown
                      /\ Len(tickets') = Len(tickets)
                      /\ tickets'[i].status = s2)

\* a ticket has been set to Picked Up by updateTicket, and a further call,
\* still to be made, takes it from Picked Up back to New
C18_Witness ==
    /\ steps = 2
    /\ ENABLED (/\ UpdateTicket(op.id, [status |-> "New"])
                /\ tickets'[1].status = "New")
    /\ op.name = "updateTicket"
    /\ op.fields = [status |-> "Picked Up"]
    /\ Len(tickets) = 1
    /\ tickets[1].id = op.id
    /\ tickets[1].status = "Picked Up"
    /\ localStorage.value.tickets[1].status = "Picked Up"

\* every entity of xs is still in ys, unchanged
Kept(xs, ys) ==
    \A i \in 1..Len(xs) : \E j \in 1..Len(ys) : ys[j] = xs[i]

\* C19 (customers, technicians and devices only grow): in every step of the
\* page other than an import, every customer, technician and device present
\* before the step is present, unchanged, after it.
C19_OnlyGrow ==
    [][op'.name # "clickImport"
          => /\ Kept(customers, customers')
             /\ Kept(technicians, technicians')
             /\ Kept(devices, devices')]_vars

\* C20 (estimated cost): on the page, every ticket's estimatedCost is absent
\* or a number that is not negative.
C20_CostNotNegative ==
    \A i \in 1..Len(tickets) :
        \/ Get(tickets[i], "estimatedCost") = NoNumber
        \/ Get(tickets[i], "estimatedCost")[1] >= 0

\* the record is an object whose four collections are empty or missing
EmptyRecord(text) ==
    /\ text.kind = "object"
    /\ \A k \in Keys : PropOrEmpty(text, k) = <<>>

\* a step the page takes by itself: a render or an effect
PageSteps == {"render", "hydrateEffect", "seedEffect"}

\* after a user's action has left the four collections and the record
\* empty, the page's own steps leave them empty
StaysEmpty ==
    (/\ steps > 0
     /\ State = EmptyState
     /\ EmptyRecord(localStorage)
     /\ op'.name \in PageSteps)
        => /\ State' = EmptyState
           /\ EmptyRecord(localStorage')

\* the demo data is written only by the effects of the first render, and
\* only when no item was stored
SeedsOnFirstLoadOnly ==
    (op'.name = "seedEffect" /\ localStorage' # localStorage)
        => /\ commit = "mount"
           /\ steps = 0
           /\ bootItem = NoItem

\* C21 (an emptied store stays empty): after a user action that leaves all
\* four collections empty, the collections and the persisted record remain
\* empty until the next user action; the demo data is installed only on a
\* first load with no persisted record.
C21_EmptiedStaysEmpty == [][StaysEmpty /\ SeedsOnFirstLoadOnly]_vars

\* every ticket of s names a customer and a device that s holds, and a
\* technician that s holds when it names one
RefsResolve(s) ==
    \A i \in 1..Len(s.tickets) :
        /\ Get(s.tickets[i], "customerId") \in Ids(s.customers)
        /\ Get(s.tickets[i], "deviceId") \in Ids(s.devices)
        /\ \/ Get(s.tickets[i], "technicianId") \in {Undefined, ""}
           \/ Get(s.tickets[i], "technicianId") \in Ids(s.technicians)

\* the item found when the page loaded carries no dangling reference (it is
\* no record at all, or one whose references resolve)
LoadedSound ==
    bootItem.kind = "object" => RefsResolve(Parsed(bootItem))

\* C22 (referential integrity without import): on the page used in one tab
\* without the import box, and loaded over an item without dangling
\* references, every ticket's customerId and deviceId are ids of a customer
\* and a device in the store, and every technicianId that is set is the id of
\* a technician in the store; the persisted record, once the page has written
\* it, has the same property.
C22_RefsResolve ==
    LoadedSound
       => /\ RefsResolve(State)
          /\ (mounted /\ effects = <<>>) => RefsResolve(Parsed(localStorage))

\* a ticket was made with the form for a customer added on the page, with a
\* technician selected, and the form was reset
C22_Witness ==
    /\ op.name = "clickAddTicket"
    /\ Len(tickets) = 2
    /\ Len(customers) = 2
    /\ tickets[1].customerId = customers[1].id
    /\ tickets[1].technicianId # Undefined
    /\ newTicket = BlankTicket

====
